---- MODULE Spec2Model ----
(***************************************************************************)
(* Model of the two-stage fraud pipeline: the raw log (upi_raw), the       *)
(* StreamAdapter, the processing log (fraud_queue), the WorkerPool and the *)
(* property graph the Cypher write path maintains.                         *)
(*                                                                         *)
(* The handlers are cut into steps at their awaits.  A MERGE query is      *)
(* evaluated when the write is issued (which patterns match, which nodes   *)
(* are to be created) and takes effect in a later step, the commit, at     *)
(* which the store enforces its uniqueness constraints.                    *)
(***************************************************************************)
EXTENDS Integers, Sequences, FiniteSets, TLC

\* ------------------------------------------------------------------------
\* Bounds of the model
\* ------------------------------------------------------------------------
MaxPublish == 2
SubScoreLevels == 2
MaxTriggers == 2
MaxRestarts == 1

\* ------------------------------------------------------------------------
\* Program constants
\* ------------------------------------------------------------------------
MAX_RETRIES == 3
WORKER_BATCH_SIZE == 10
HIGH_RISK_THRESHOLD == 70
MEDIUM_RISK_THRESHOLD == 40
NEW_DEVICE_PENALTY == 12
DORMANT_DAYS_THRESHOLD == 30

\* Time is counted in days; Today is datetime() of the store.  The events
\* carry their own timestamp, P3 an earlier one than P1.
Today == 40

\* ------------------------------------------------------------------------
\* Finite universes
\* ------------------------------------------------------------------------
Users == {"U1", "U2"}
Devices == {"D1"}
IPs == {"IP1"}
TxIds == {"T1", "T2"}
NoIP == "none"

Workers == {"worker-0", "worker-1"}
Adapters == {"adapter-0"}
\* the two components that create a consumer group when they start
Components == {"StreamAdapter", "WorkerPool"}
WsClients == {"ws1"}

\* Fused risk scores the engine can return (boundary values of the thresholds)
RiskScores == {39, 40, 70}

\* Raw payloads the upstream gateway publishes.  P1 and P2 carry the same
\* tx_id with sender and receiver swapped; PBad has amount 0.
P1 == [tx_id |-> "T1", sender_id |-> "U1", receiver_id |-> "U2", amount |-> 1,
       device_id |-> "D1", ip_address |-> "IP1", timestamp |-> Today - 1]
P2 == [tx_id |-> "T1", sender_id |-> "U2", receiver_id |-> "U1", amount |-> 1,
       device_id |-> "D1", ip_address |-> NoIP, timestamp |-> Today - 1]
P3 == [tx_id |-> "T2", sender_id |-> "U1", receiver_id |-> "U2", amount |-> 2,
       device_id |-> "D1", ip_address |-> NoIP, timestamp |-> Today - 2]
PBad == [tx_id |-> "T2", sender_id |-> "U1", receiver_id |-> "U2", amount |-> 0,
         device_id |-> "D1", ip_address |-> NoIP, timestamp |-> Today - 1]
Payloads == {P1, P2, P3, PBad}

VARIABLES
    \* --- Redis streams ---
    rawLog,            \* upi_raw: sequence of payloads, index = message id
    rawDelivered,      \* last-delivered id of group upi_adapter
    rawPEL,            \* pending-entry list of group upi_adapter
    fraudQueue,        \* fraud_queue: sequence of payloads
    fqDelivered,       \* last-delivered id of group fraud_workers
    fqPEL,             \* pending-entry list of fraud_workers: <<id, consumer>>
    \* --- StreamAdapter ---
    apc, abatch, acur,
    forwarded, validation_errors,
    \* --- WorkerPool ---
    wpc, wbatch, wcur,
    processed_count, deadlock_retries, ingest_errors,
    \* --- property graph ---
    userCount, deviceCount, ipCount, txCount,   \* nodes per key
    txProp,            \* Transaction properties by tx_id
    userRisk,          \* User.risk_score by user_id
    userProp,          \* User.last_active and User.is_dormant by user_id
    sent, receivedBy, usesDevice, accessedFrom, \* edges
    transferredTo,     \* TRANSFERRED_TO properties by <<s, r>>
    \* --- WebSocket broadcaster ---
    connections,       \* ConnectionManager._connections
    \* --- logs ---
    errorLog,          \* logger.error records of _process_message: [id, stage]
    \* --- GraphAnalyzer ---
    gpc,               \* position of _loop / run_once
    gstats,            \* keys of the stats dict of the running cycle
    matched,           \* users the dormant-flagging query has matched
    seenActive,        \* last_active BATCH_UPDATE_USER_STATS read last, by user
    last_run_stats,    \* keys of GraphAnalyzer.last_run_stats
    gmode,             \* the path the graph algorithms of this cycle took
    \* --- CollusiveFraudDetector ---
    rpos,              \* the query refresh() is at
    cacheFresh,        \* the cache fields the latest refresh() has replaced
    \* --- environment ---
    env,  \* what the gateway publishes and which calls can fail
    \* --- startup of WorkerPool and StreamAdapter ---
    groupExists,       \* per component: its consumer group exists in Redis
    spc,               \* per component: position in start()
    sreply,            \* per component: reply to the first XGROUP CREATE
    \* --- RiskEngine.score_transaction, the fusion ---
    fpc,               \* "extract" before the fusion, "done" after it
    sub,               \* what the five extractors returned
    s_behavioral,      \* the behavioural sub-score after the compound boost
    fused,             \* the fused risk, in hundredths
    \* --- _build_reason ---
    bpc,               \* "build" before the call, "done" after it
    bfired,            \* the templates whose condition holds, by position
    bfused,            \* the fused risk handed to _build_reason
    breason,           \* the string it returned
    \* --- history ---
    \* --- one transaction, enriched and scored in two runs ---
    ttx,               \* the transaction and what the graph holds for its sender
    tpc,               \* per run: "enrich", "score" or "done"
    tgeo,              \* per run: the geo fields INGEST_IP set on the IP node
    tres,              \* per run: the RiskResponse and the alert's geoEvidence
    everDelivered,     \* the fraud_queue ids XREADGROUP has handed to a worker
    restarts           \* how often the application has been started again

streamVars == <<rawLog, rawDelivered, rawPEL, fraudQueue, fqDelivered, fqPEL>>
adapterVars == <<apc, abatch, acur, forwarded, validation_errors>>
workerVars == <<wpc, wbatch, wcur, processed_count, deadlock_retries, ingest_errors>>
graphVars == <<userCount, deviceCount, ipCount, txCount, txProp, userRisk,
               userProp, sent, receivedBy, usesDevice, accessedFrom, transferredTo>>
wsVars == <<connections>>
logVars == <<errorLog>>
analyzerVars == <<gpc, gstats, matched, seenActive, last_run_stats, gmode>>
cacheVars == <<rpos, cacheFresh>>
startupVars == <<groupExists, spc, sreply>>
fusionVars == <<fpc, sub, s_behavioral, fused>>
reasonVars == <<bpc, bfired, bfused, breason>>
twinVars == <<ttx, tpc, tgeo, tres>>
pureVars == <<reasonVars, twinVars>>
extraVars == <<pureVars, everDelivered, restarts>>
backgroundVars == <<analyzerVars, cacheVars, startupVars, fusionVars, extraVars>>
vars == <<streamVars, adapterVars, workerVars, graphVars, wsVars, logVars,
          backgroundVars, env>>

\* ------------------------------------------------------------------------
\* Helpers
\* ------------------------------------------------------------------------
Min(a, b) == IF a < b THEN a ELSE b

RECURSIVE Range(_, _)
Range(lo, hi) == IF lo > hi THEN <<>> ELSE <<lo>> \o Range(lo + 1, hi)

\* a call succeeds, or raises when the environment lets it fail
Outcomes(call) == IF call \in env.faults THEN {TRUE, FALSE} ELSE {TRUE}

\* a schema that accepts every payload
AcceptsAll(p) == TRUE

\* TransactionInput(**tx_data): amount is Field(gt=0)
Validates(p) == p.amount > 0

NoPlan == [rows |-> FALSE, create |-> {}]
NoAlert == [id |-> "none", status |-> "NONE", riskScore |-> 0, semanticAlert |-> ""]
NoCur == [id |-> 0, query |-> "-", attempt |-> 0, plan |-> NoPlan, exc |-> "-",
          score |-> 0, warned |-> FALSE, alert |-> NoAlert, reason |-> "",
          new_device_flag |-> FALSE, new_device_score |-> 0]

NoEdge == [total_amount |-> 0, tx_count |-> 0]
NoUser == [last_active |-> 0, is_dormant |-> FALSE]

\* seed_data.py: a dormant user was last active 35..90 days ago, the others
\* within the last day
SeedUser(u) ==
    IF u = "U1" THEN [last_active |-> Today - 35, is_dormant |-> TRUE]
    ELSE [last_active |-> Today - 1, is_dormant |-> FALSE]

NoTx == [amount |-> 0, status |-> "NONE", risk_score |-> 0, reason |-> ""]

\* extractors that found nothing
NoSub == [graph |-> 0, behavioral |-> 0, device |-> 0, dead |-> 0, velocity |-> 0,
          circadian_anomaly |-> FALSE, new_device_flag |-> FALSE]

\* no call of _build_reason is under way
ReasonIdle == bpc = "done" /\ bfired = {} /\ bfused = 0 /\ breason = "-"

Runs == {1, 2}
NoPoint == [lat |-> 0, lon |-> 0]
NoGeo == [lat |-> 0, lon |-> 0, city |-> ""]
NoResult == [risk_score |-> 0, risk_level |-> "-", flags |-> {}, reason |-> "",
             geoEvidence |-> "-"]
NoTwinTx == [asn_class |-> "-", sender |-> NoPoint, last |-> NoPoint,
             hours |-> 0, other |-> 0]

\* no twin run is under way
TwinIdle ==
    /\ ttx = NoTwinTx
    /\ tpc = [r \in Runs |-> "done"]
    /\ tgeo = [r \in Runs |-> NoGeo]
    /\ tres = [r \in Runs |-> NoResult]

ExtraIdle == ReasonIdle /\ TwinIdle /\ everDelivered = {} /\ restarts = 0

\* the state of the process and of Neo4j when the application comes up
InitMemory(cfg) ==
    /\ env = cfg
    /\ apc = [a \in Adapters |-> "read"]
    /\ abatch = [a \in Adapters |-> <<>>]
    /\ acur = [a \in Adapters |-> 0]
    /\ forwarded = 0 /\ validation_errors = 0
    /\ wpc = [w \in Workers |-> "read"]
    /\ wbatch = [w \in Workers |-> <<>>]
    /\ wcur = [w \in Workers |-> NoCur]
    /\ processed_count = 0 /\ deadlock_retries = 0 /\ ingest_errors = 0
    \* the seed script pre-creates some users
    /\ userCount = [u \in Users |-> IF u \in cfg.seeded THEN 1 ELSE 0]
    /\ deviceCount = [d \in Devices |-> 0]
    /\ ipCount = [i \in IPs |-> 0]
    /\ txCount = [t \in TxIds |-> 0]
    /\ txProp = [t \in TxIds |-> NoTx]
    /\ userRisk = [u \in Users |-> 0]
    /\ userProp = [u \in Users |-> IF u \in cfg.seeded THEN SeedUser(u) ELSE NoUser]
    /\ sent = {} /\ receivedBy = {} /\ usesDevice = {} /\ accessedFrom = {}
    /\ transferredTo = [e \in Users \X Users |-> NoEdge]
    /\ connections = {}
    /\ errorLog = {}
    /\ gpc = "sleep" /\ gstats = {} /\ matched = {}
    /\ seenActive = [u \in Users |-> 0]
    /\ last_run_stats = {} /\ gmode = "-"
    /\ rpos = 1 /\ cacheFresh = {}

InitWith(cfg) ==
    /\ InitMemory(cfg)
    /\ fpc = "done" /\ sub = NoSub /\ s_behavioral = 0 /\ fused = 0
    /\ ExtraIdle
    /\ rawLog = <<>> /\ rawDelivered = 0 /\ rawPEL = {}
    /\ fraudQueue = <<>> /\ fqDelivered = 0 /\ fqPEL = {}
    \* both start() calls have run against an empty Redis
    /\ groupExists = [c \in Components |-> TRUE]
    /\ spc = [c \in Components |-> "started"]
    /\ sreply = [c \in Components |-> "OK"]

\* ------------------------------------------------------------------------
\* Upstream producer: publish_upi_raw
\* ------------------------------------------------------------------------
PublishRaw(p) ==
    /\ Len(rawLog) < MaxPublish
    /\ p \in env.payloads
    /\ rawLog' = Append(rawLog, p)
    /\ UNCHANGED <<env, backgroundVars, rawDelivered, rawPEL, fraudQueue, fqDelivered, fqPEL,
                   adapterVars, workerVars, graphVars, wsVars, logVars>>

\* ------------------------------------------------------------------------
\* StreamAdapter
\* ------------------------------------------------------------------------
\* _adapter_loop: XREADGROUP '>' with count = WORKER_BATCH_SIZE
AdapterRead(a) ==
    /\ apc[a] = "read"
    /\ spc["StreamAdapter"] = "started"
    /\ rawDelivered < Len(rawLog)
    /\ LET hi == Min(Len(rawLog), rawDelivered + WORKER_BATCH_SIZE)
           ids == Range(rawDelivered + 1, hi)
       IN /\ rawDelivered' = hi
          /\ rawPEL' = rawPEL \cup {ids[i] : i \in 1..Len(ids)}
          /\ acur' = [acur EXCEPT ![a] = Head(ids)]
          /\ abatch' = [abatch EXCEPT ![a] = Tail(ids)]
          /\ apc' = [apc EXCEPT ![a] = "handle"]
    /\ UNCHANGED <<env, backgroundVars, rawLog, fraudQueue, fqDelivered, fqPEL, forwarded,
                   validation_errors, workerVars, graphVars, wsVars, logVars>>

\* next message of the batch, or back to XREADGROUP
AdapterNextPc(a) == IF abatch[a] = <<>> THEN "read" ELSE "handle"
AdapterNextCur(a) == IF abatch[a] = <<>> THEN 0 ELSE Head(abatch[a])
AdapterNextBatch(a) == IF abatch[a] = <<>> THEN <<>> ELSE Tail(abatch[a])

AdapterAdvance(a) ==
    /\ apc' = [apc EXCEPT ![a] = AdapterNextPc(a)]
    /\ acur' = [acur EXCEPT ![a] = AdapterNextCur(a)]
    /\ abatch' = [abatch EXCEPT ![a] = AdapterNextBatch(a)]

\* _handle_message up to the first await: decode, validate;
\* on a validation error count it, XACK and return
AdapterValidate(a) ==
    /\ apc[a] = "handle"
    /\ IF Validates(rawLog[acur[a]])
       THEN /\ apc' = [apc EXCEPT ![a] = "publish"]
            /\ UNCHANGED <<acur, abatch, validation_errors, rawPEL>>
       ELSE /\ validation_errors' = validation_errors + 1
            /\ rawPEL' = rawPEL \ {acur[a]}
            /\ AdapterAdvance(a)
    /\ UNCHANGED <<env, backgroundVars, rawLog, rawDelivered, fraudQueue, fqDelivered, fqPEL,
                   forwarded, workerVars, graphVars, wsVars, logVars>>

\* publish_to_fraud_queue: XADD to fraud_queue; when it raises, the outer
\* except counts a validation error and XACKs the raw message
AdapterPublish(a) ==
    /\ apc[a] = "publish"
    /\ \E ok \in Outcomes("publish") :
        IF ok
        THEN /\ fraudQueue' = Append(fraudQueue, rawLog[acur[a]])
             /\ apc' = [apc EXCEPT ![a] = "ack"]
             /\ UNCHANGED <<acur, abatch, validation_errors, rawPEL>>
        ELSE /\ validation_errors' = validation_errors + 1
             /\ rawPEL' = rawPEL \ {acur[a]}
             /\ AdapterAdvance(a)
             /\ UNCHANGED fraudQueue
    /\ UNCHANGED <<env, backgroundVars, rawLog, rawDelivered, fqDelivered, fqPEL,
                   forwarded, workerVars, graphVars, wsVars, logVars>>

\* XACK on upi_raw after the publish, then the metrics
AdapterAck(a) ==
    /\ apc[a] = "ack"
    /\ rawPEL' = rawPEL \ {acur[a]}
    /\ forwarded' = forwarded + 1
    /\ AdapterAdvance(a)
    /\ UNCHANGED <<env, backgroundVars, rawLog, rawDelivered, fraudQueue, fqDelivered, fqPEL,
                   validation_errors, workerVars, graphVars, wsVars, logVars>>

\* ------------------------------------------------------------------------
\* Graph store: MERGE by key under the uniqueness constraints
\* ------------------------------------------------------------------------
NodeCount(k) ==
    CASE k[1] = "User" -> userCount[k[2]]
      [] k[1] = "Device" -> deviceCount[k[2]]
      [] k[1] = "IP" -> ipCount[k[2]]
      [] k[1] = "Transaction" -> txCount[k[2]]

\* keys among ks that a MERGE finds no node for
Missing(ks) == {k \in ks : NodeCount(k) = 0}

\* INGEST_TRANSACTION: MATCH sender and receiver, MERGE device and transaction
PlanFast(p) ==
    LET rows == userCount[p.sender_id] > 0 /\ userCount[p.receiver_id] > 0
    IN [rows |-> rows,
        create |-> IF rows
                   THEN Missing({<<"Device", p.device_id>>, <<"Transaction", p.tx_id>>})
                   ELSE {}]

\* INGEST_TRANSACTION_SAFE: MERGE sender, receiver, device and transaction
PlanSafe(p) ==
    [rows |-> TRUE,
     create |-> Missing({<<"User", p.sender_id>>, <<"User", p.receiver_id>>,
                         <<"Device", p.device_id>>, <<"Transaction", p.tx_id>>})]

\* INGEST_IP: MERGE the IP node
PlanIP(p) == [rows |-> TRUE, create |-> Missing({<<"IP", p.ip_address>>})]

\* a store without the uniqueness constraints
NoConstraint(plan) == FALSE

\* SCHEMA_CONSTRAINTS: a commit that would create a second node for a key
\* is rejected with a constraint violation
ConstraintViolated(plan) == \E k \in plan.create : NodeCount(k) > 0

Created(plan, label, key) == IF <<label, key>> \in plan.create THEN 1 ELSE 0

\* the nodes a committed plan creates
CommitNodes(plan) ==
    /\ userCount' = [u \in Users |-> userCount[u] + Created(plan, "User", u)]
    /\ deviceCount' = [d \in Devices |-> deviceCount[d] + Created(plan, "Device", d)]
    /\ ipCount' = [i \in IPs |-> ipCount[i] + Created(plan, "IP", i)]
    /\ txCount' = [t \in TxIds |-> txCount[t] + Created(plan, "Transaction", t)]

\* MERGE (s)-[edge:TRANSFERRED_TO]->(r) ON CREATE / ON MATCH
MergeTransferred(edge, amount) ==
    IF edge.tx_count = 0
    THEN [total_amount |-> amount, tx_count |-> 1]
    ELSE [total_amount |-> edge.total_amount + amount, tx_count |-> edge.tx_count + 1]

\* the body shared by INGEST_TRANSACTION and INGEST_TRANSACTION_SAFE, run
\* once per matched row
CommitIngest(plan, p) ==
    /\ CommitNodes(plan)
    /\ IF plan.rows
       THEN /\ txProp' = IF <<"Transaction", p.tx_id>> \in plan.create
                         THEN [txProp EXCEPT ![p.tx_id] =
                                  [amount |-> p.amount, status |-> "PENDING",
                                   risk_score |-> 0, reason |-> ""]]
                         ELSE txProp
            /\ sent' = sent \cup {<<p.sender_id, p.tx_id>>}
            /\ receivedBy' = receivedBy \cup {<<p.tx_id, p.receiver_id>>}
            /\ usesDevice' = usesDevice \cup {<<p.sender_id, p.device_id>>}
            /\ transferredTo' = [transferredTo EXCEPT ![<<p.sender_id, p.receiver_id>>] =
                                    MergeTransferred(@, p.amount)]
            \* SET s.last_active = datetime($timestamp), s.is_dormant = false;
            \* a receiver the safe query creates gets the same
            /\ userProp' = [u \in Users |->
                               IF u = p.sender_id \/ <<"User", u>> \in plan.create
                               THEN [last_active |-> p.timestamp, is_dormant |-> FALSE]
                               ELSE userProp[u]]
       ELSE UNCHANGED <<txProp, sent, receivedBy, usesDevice, transferredTo, userProp>>
    /\ UNCHANGED <<env, backgroundVars, userRisk, accessedFrom>>

\* INGEST_IP: MERGE the IP node, then MATCH the user and MERGE ACCESSED_FROM
CommitIP(plan, p) ==
    /\ CommitNodes(plan)
    /\ accessedFrom' = IF userCount[p.sender_id] > 0
                       THEN accessedFrom \cup {<<p.sender_id, p.ip_address>>}
                       ELSE accessedFrom
    /\ UNCHANGED <<env, backgroundVars, txProp, userRisk, userProp, sent, receivedBy, usesDevice,
                   transferredTo>>

\* UPDATE_TX_RISK: MATCH the transaction, SET risk_score, status and reason
UpdateTxRisk(props, t, score, status, reason) ==
    IF txCount[t] > 0
    THEN [props EXCEPT ![t].risk_score = score, ![t].status = status,
                       ![t].reason = reason]
    ELSE props

\* RiskEngine.score_transaction step 8: the status the engine persists
EngineStatus(score) ==
    IF score >= HIGH_RISK_THRESHOLD THEN "FLAGGED" ELSE "COMPLETED"

\* WorkerPool._process_message step 2b: the status of write-back and alert
WorkerStatus(score) ==
    IF score >= HIGH_RISK_THRESHOLD THEN "BLOCKED"
    ELSE IF score >= MEDIUM_RISK_THRESHOLD THEN "FLAGGED" ELSE "COMPLETED"

\* a broadcast that lets the failure of a send_text escape
BroadcastRaisesUncaught(dead) == dead # {}

\* ConnectionManager.broadcast catches the failure of every send_text
BroadcastRaises(dead) == FALSE

\* ------------------------------------------------------------------------
\* _build_reason: the explanation of a scored transaction
\* ------------------------------------------------------------------------
\* the sentences _build_reason appends, in the order of its if statements;
\* numbers formatted into a sentence stand at a sample value
Templates == <<
    "Account activated after 45 days of inactivity",
    "Pass-through ratio 90% exceeds threshold",
    "Sleep-and-flash mule: amount 60x above historical avg, dormant >30d",
    "Community #7 has 80% fraud density",
    "High betweenness centrality (money router)",
    "Shared device with 3 other accounts",
    "Transaction from a new/unseen device",
    "Device capability mask changed unexpectedly",
    "New device + high amount + MPIN authentication",
    "SIM-swap: 4 users on same device in 24h",
    "Impossible travel detected between consecutive transactions",
    "Amount z-score 3.5x above user baseline",
    "Unusual night-time transaction",
    "High ASN risk: HOSTING network (country: NL)",
    "Foreign IP origin: NL",
    "ASN drift: unusual network for this user",
    "IP rotation: 6 unique IPs in 24h",
    "Fixed-amount pattern: repeated identical transfers",
    "Circadian anomaly: transaction at unusual hour for this user",
    "TX identicality: 5 identical-amount transfers to same receiver",
    "Velocity: 6.0 tx/min in last window",
    "Rapid fund relay pattern" >>

\* parts after the if statements: the sentences of the conditions that hold
RECURSIVE PartsFrom(_, _)
PartsFrom(fired, i) ==
    IF i > Len(Templates) THEN <<>>
    ELSE (IF i \in fired THEN <<Templates[i]>> ELSE <<>>) \o PartsFrom(fired, i + 1)

\* ". ".join(parts)
RECURSIVE Join(_)
Join(parts) ==
    IF Len(parts) = 0 THEN ""
    ELSE IF Len(parts) = 1 THEN parts[1]
    ELSE parts[1] \o ". " \o Join(Tail(parts))

\* a _build_reason that has no sentence for the case that nothing fired
EmptyFallback(f) == <<>>

\* if not parts: one sentence at or above HIGH_RISK_THRESHOLD
FallbackParts(f) ==
    IF f >= HIGH_RISK_THRESHOLD
    THEN <<"Multiple minor indicators combined above threshold">>
    ELSE <<>>

\* _build_reason(behav, dead, device, graph, vel, fused, flags)
BuildReason(fired, f) ==
    LET parts == PartsFrom(fired, 1)
        all == IF Len(parts) = 0 THEN FallbackParts(f) ELSE parts
    IN IF Len(parts) = 0 /\ f < HIGH_RISK_THRESHOLD
       THEN "No significant risk indicators"
       ELSE Join(all) \o "."

\* ------------------------------------------------------------------------
\* The extractors score_transaction gathers
\* ------------------------------------------------------------------------
\* the graph reads of BehavioralExtractor.compute and compute_asn_risk
BehavioralReads == {"history", "profile", "asn_density", "asn_history",
                    "ip_rotation", "recent_amounts", "hour_distribution",
                    "identicality"}

\* the reads that sit in a try/except of their own; QUERY_USER_TX_HISTORY
\* and QUERY_USER_PROFILE are awaited outside any try
GuardedReads == BehavioralReads \ {"history", "profile"}

\* the read that raises in one call of compute, at most one
FailedReads ==
    IF "behav_read" \in env.faults
    THEN {{}} \cup {{r} : r \in BehavioralReads}
    ELSE {{}}

\* asyncio.gather without return_exceptions: the exception of a read that
\* no try guards leaves compute and score_transaction
ExtractorsRaise(failed) == failed \ GuardedReads # {}

\* DeviceRiskExtractor.compute: QUERY_DEVICE_INFO returns no row, or the
\* device is not among the rows of QUERY_USER_DEVICE_HISTORY
NewDeviceFlag(p) ==
    \/ deviceCount[p.device_id] = 0
    \/ <<p.sender_id, p.device_id>> \notin usesDevice

\* new_device_score of the device extractor
NewDeviceScore(p) == IF NewDeviceFlag(p) THEN NEW_DEVICE_PENALTY ELSE 0

\* position of "Transaction from a new/unseen device" in Templates
NewDeviceTemplate == 7

\* the conditions of _build_reason the other extractors' output meets:
\* none, or the night-time one when the environment has triggers
OtherFired == IF "trigger" \in env.faults THEN {{}, {13}} ELSE {{}}

\* the templates whose condition holds for this transaction
FiredFor(p, other) ==
    other \cup (IF NewDeviceFlag(p) THEN {NewDeviceTemplate} ELSE {})

\* ------------------------------------------------------------------------
\* WorkerPool
\* ------------------------------------------------------------------------
Payload(w) == fraudQueue[wcur[w].id]

\* _worker: XREADGROUP '>' with count = WORKER_BATCH_SIZE
WorkerRead(w) ==
    /\ wpc[w] = "read"
    /\ spc["WorkerPool"] = "started"
    /\ fqDelivered < Len(fraudQueue)
    /\ LET hi == Min(Len(fraudQueue), fqDelivered + WORKER_BATCH_SIZE)
           ids == Range(fqDelivered + 1, hi)
       IN /\ fqDelivered' = hi
          /\ fqPEL' = fqPEL \cup {<<ids[i], w>> : i \in 1..Len(ids)}
          /\ wcur' = [wcur EXCEPT ![w] = [NoCur EXCEPT !.id = Head(ids)]]
          /\ wbatch' = [wbatch EXCEPT ![w] = Tail(ids)]
          /\ wpc' = [wpc EXCEPT ![w] = "decode"]
          /\ everDelivered' = everDelivered \cup {ids[i] : i \in 1..Len(ids)}
    /\ UNCHANGED <<env, analyzerVars, cacheVars, startupVars, fusionVars, pureVars,
                   restarts, rawLog, rawDelivered, rawPEL, fraudQueue, adapterVars,
                   processed_count, deadlock_retries, ingest_errors,
                   graphVars, wsVars, logVars>>

\* the for loop of _worker: next entry of the batch, or back to XREADGROUP
WorkerAdvance(w) ==
    /\ wpc' = [wpc EXCEPT ![w] = IF wbatch[w] = <<>> THEN "read" ELSE "decode"]
    /\ wcur' = [wcur EXCEPT ![w] =
                   IF wbatch[w] = <<>> THEN NoCur
                   ELSE [NoCur EXCEPT !.id = Head(wbatch[w])]]
    /\ wbatch' = [wbatch EXCEPT ![w] = IF wbatch[w] = <<>> THEN <<>> ELSE Tail(wbatch[w])]

\* the outer except of _process_message: count, log, return
WorkerFail(w, stage) ==
    /\ ingest_errors' = ingest_errors + 1
    /\ errorLog' = errorLog \cup {[id |-> wcur[w].id, stage |-> stage]}
    /\ WorkerAdvance(w)
    /\ UNCHANGED fqPEL

\* a worker that goes to the XACK from any stage
WorkerGotoAck(w, pc) == wpc' = [wpc EXCEPT ![w] = "ack"]

WorkerGoto(w, pc) == wpc' = [wpc EXCEPT ![w] = pc]

\* the plan of the ingest query a worker issues
PlanOf(query, p) == IF query = "FAST" THEN PlanFast(p) ELSE PlanSafe(p)

\* decode the hash, parse the payload, TransactionInput(**tx_data), and issue
\* the first attempt of INGEST_TRANSACTION
WorkerDecode(w) ==
    /\ wpc[w] = "decode"
    /\ IF Validates(Payload(w))
       THEN /\ wcur' = [wcur EXCEPT ![w].query = "FAST", ![w].attempt = 0,
                                    ![w].plan = PlanFast(Payload(w))]
            /\ WorkerGoto(w, "ingest")
            /\ UNCHANGED <<wbatch, ingest_errors, errorLog, fqPEL>>
       ELSE WorkerFail(w, "decode")
    /\ UNCHANGED <<env, backgroundVars, rawLog, rawDelivered, rawPEL, fraudQueue, fqDelivered,
                   adapterVars, processed_count, deadlock_retries,
                   graphVars, wsVars>>

\* error classes _ingest_with_retry tells apart by the text of the exception
Errors == {"transient", "constraint", "not_found", "other"}

\* outcomes of a commit: the store rejects a plan that violates a constraint
CommitOutcomes(plan) ==
    IF ConstraintViolated(plan) THEN {"constraint"} \cup env.errors
    ELSE {"ok"} \cup env.errors

\* after step 1: INGEST_IP is issued when the payload has an IP, else scoring;
\* exc is the exception _ingest_with_retry swallowed on its last attempt
AfterIngest(w, exc) ==
    /\ wcur' = [wcur EXCEPT ![w].exc = exc, ![w].plan =
                   IF Payload(w).ip_address # NoIP THEN PlanIP(Payload(w)) ELSE NoPlan]
    /\ WorkerGoto(w, IF Payload(w).ip_address # NoIP THEN "ip" ELSE "score")

\* a retry ladder that re-raises every error of the last attempt
RaisedOnLast(out) == FALSE

\* "Constraint on last attempt -- skip (already ingested)": the error the
\* last attempt swallows
SwallowedOnLast(out) == out = "constraint"

\* a ladder that falls back from whichever query it is running
FallsBackAlways(query, out) == out = "not_found"

\* if is_not_found and query == INGEST_TRANSACTION
FallsBack(query, out) == out = "not_found" /\ query = "FAST"

\* _ingest_with_retry: the commit of one attempt and the retry ladder
WorkerIngestCommit(w) ==
    /\ wpc[w] = "ingest"
    /\ \E out \in CommitOutcomes(wcur[w].plan) :
        LET c == wcur[w]
            last == c.attempt >= MAX_RETRIES - 1
        IN
        CASE out = "ok" ->
                /\ CommitIngest(c.plan, Payload(w))
                /\ AfterIngest(w, "-")
                /\ UNCHANGED <<wbatch, deadlock_retries, ingest_errors, errorLog, fqPEL>>
          [] FallsBack(c.query, out) ->
                \* fall back to INGEST_TRANSACTION_SAFE with its own attempts
                /\ wcur' = [wcur EXCEPT ![w].query = "SAFE", ![w].attempt = 0,
                                        ![w].exc = out,
                                        ![w].plan = PlanSafe(Payload(w))]
                /\ UNCHANGED <<wpc, wbatch, deadlock_retries, ingest_errors,
                               errorLog, fqPEL, graphVars>>
          [] out = "constraint" /\ ~last ->
                /\ wcur' = [wcur EXCEPT ![w].attempt = @ + 1, ![w].exc = out,
                                        ![w].plan = PlanOf(c.query, Payload(w))]
                /\ UNCHANGED <<wpc, wbatch, deadlock_retries, ingest_errors,
                               errorLog, fqPEL, graphVars>>
          [] SwallowedOnLast(out) /\ last ->
                \* constraint on the last attempt: skip, already ingested
                /\ AfterIngest(w, out)
                /\ UNCHANGED <<wbatch, deadlock_retries, ingest_errors, errorLog,
                               fqPEL, graphVars>>
          [] out = "transient" /\ ~last ->
                /\ deadlock_retries' = deadlock_retries + 1
                /\ wcur' = [wcur EXCEPT ![w].attempt = @ + 1, ![w].exc = out,
                                        ![w].plan = PlanOf(c.query, Payload(w))]
                /\ UNCHANGED <<wpc, wbatch, ingest_errors, errorLog, fqPEL, graphVars>>
          [] OTHER ->
                \* raise: out of _ingest_with_retry into the outer except
                /\ WorkerFail(w, "ingest")
                /\ UNCHANGED <<deadlock_retries, graphVars>>
    /\ UNCHANGED <<env, backgroundVars, rawLog, rawDelivered, rawPEL, fraudQueue, fqDelivered,
                   adapterVars, processed_count, wsVars>>

IPOutcomes(plan) ==
    IF ConstraintViolated(plan) THEN {"constraint"}
    ELSE IF "ip" \in env.faults THEN {"ok", "other"} ELSE {"ok"}

\* step 1b: the commit of INGEST_IP; any error leaves through the outer except
WorkerIPCommit(w) ==
    /\ wpc[w] = "ip"
    /\ \E out \in IPOutcomes(wcur[w].plan) :
        IF out = "ok"
        THEN /\ CommitIP(wcur[w].plan, Payload(w))
             /\ wcur' = [wcur EXCEPT ![w].plan = NoPlan]
             /\ WorkerGoto(w, "score")
             /\ UNCHANGED <<wbatch, ingest_errors, errorLog, fqPEL>>
        ELSE /\ WorkerFail(w, "ip")
             /\ UNCHANGED graphVars
    /\ UNCHANGED <<env, backgroundVars, rawLog, rawDelivered, rawPEL, fraudQueue, fqDelivered,
                   adapterVars, processed_count, deadlock_retries, wsVars>>

\* step 2, score_transaction steps 1-7: the extractors' reads, the fusion
\* and _build_reason; a read of an extractor that raises outside a try
\* leaves through the outer except
WorkerScore(w) ==
    /\ wpc[w] = "score"
    /\ \/ \E r \in env.scores, failed \in FailedReads, other \in OtherFired :
            LET p == Payload(w)
            IN IF ExtractorsRaise(failed)
               THEN WorkerFail(w, "score")
               ELSE /\ wcur' = [wcur EXCEPT
                                  ![w].score = r,
                                  ![w].new_device_flag = NewDeviceFlag(p),
                                  ![w].new_device_score = NewDeviceScore(p),
                                  ![w].reason = BuildReason(FiredFor(p, other), r)]
                    /\ WorkerGoto(w, "persist")
                    /\ UNCHANGED <<wbatch, ingest_errors, errorLog, fqPEL>>
       \/ /\ "score" \in env.faults
          /\ WorkerFail(w, "score")
    /\ UNCHANGED <<env, backgroundVars, rawLog, rawDelivered, rawPEL, fraudQueue, fqDelivered,
                   adapterVars, processed_count, deadlock_retries,
                   graphVars, wsVars>>

\* the writes of step 8 that succeed: "none" when UPDATE_TX_RISK raises (the
\* user write is then not reached), "tx" when UPDATE_USER_RISK raises
PersistOutcomes ==
    IF "persist" \in env.faults THEN {"none", "tx", "both"}
    ELSE IF "persist_tx" \in env.faults THEN {"none", "both"}
    ELSE {"both"}

\* score_transaction step 8: UPDATE_TX_RISK then UPDATE_USER_RISK inside one
\* try; a failure of either is logged and the response is returned
WorkerPersist(w) ==
    /\ wpc[w] = "persist"
    /\ LET p == Payload(w)
           r == wcur[w].score
       IN \E done \in PersistOutcomes :
            /\ txProp' = IF done = "none" THEN txProp
                         ELSE UpdateTxRisk(txProp, p.tx_id, r, EngineStatus(r), wcur[w].reason)
            /\ userRisk' = IF done = "both" /\ userCount[p.sender_id] > 0
                           THEN [userRisk EXCEPT ![p.sender_id] = r]
                           ELSE userRisk
    /\ WorkerGoto(w, "writeback")
    /\ UNCHANGED <<env, backgroundVars, streamVars, adapterVars, wbatch, wcur, processed_count,
                   deadlock_retries, ingest_errors, userCount, deviceCount,
                   ipCount, txCount, userProp, sent, receivedBy, usesDevice,
                   accessedFrom, transferredTo, wsVars, logVars>>

\* step 2b: write-back of UPDATE_TX_RISK in its own try; a failure is warned
WorkerWriteBack(w) ==
    /\ wpc[w] = "writeback"
    /\ LET p == Payload(w)
           r == wcur[w].score
       IN \E ok \in Outcomes("writeback") :
            IF ok
            THEN /\ txProp' = UpdateTxRisk(txProp, p.tx_id, r, WorkerStatus(r), wcur[w].reason)
                 /\ UNCHANGED wcur
            ELSE /\ wcur' = [wcur EXCEPT ![w].warned = TRUE]
                 /\ UNCHANGED txProp
    /\ WorkerGoto(w, "alert")
    /\ UNCHANGED <<env, backgroundVars, streamVars, adapterVars, wbatch, processed_count,
                   deadlock_retries, ingest_errors, userCount, deviceCount,
                   ipCount, txCount, userRisk, userProp, sent, receivedBy,
                   usesDevice, accessedFrom, transferredTo, wsVars, logVars>>

DeadClients == IF "send" \in env.faults THEN SUBSET connections ELSE {{}}

\* step 3: the enriched dict and alert_callback = ws_manager.broadcast;
\* dead is the set of clients whose send_text raises
WorkerAlert(w) ==
    /\ wpc[w] = "alert"
    /\ \E dead \in DeadClients :
        LET p == Payload(w)
            r == wcur[w].score
        IN IF BroadcastRaises(dead)
           THEN /\ WorkerFail(w, "alert")
                /\ UNCHANGED connections
           ELSE /\ connections' = connections \ dead
                /\ wcur' = [wcur EXCEPT ![w].warned = (@ \/ dead # {}),
                                        ![w].alert = [id |-> p.tx_id,
                                                      status |-> WorkerStatus(r),
                                                      riskScore |-> r,
                                                      semanticAlert |-> wcur[w].reason]]
                /\ WorkerGoto(w, "ack")
                /\ UNCHANGED <<wbatch, ingest_errors, errorLog, fqPEL>>
    /\ UNCHANGED <<env, backgroundVars, rawLog, rawDelivered, rawPEL, fraudQueue, fqDelivered,
                   adapterVars, processed_count, deadlock_retries, graphVars>>

\* step 4: XACK, then the metrics
WorkerAck(w) ==
    /\ wpc[w] = "ack"
    /\ fqPEL' = fqPEL \ {<<wcur[w].id, w>>}
    /\ processed_count' = processed_count + 1
    /\ WorkerAdvance(w)
    /\ UNCHANGED <<env, backgroundVars, rawLog, rawDelivered, rawPEL, fraudQueue, fqDelivered,
                   adapterVars, deadlock_retries, ingest_errors,
                   graphVars, wsVars, logVars>>

\* ------------------------------------------------------------------------
\* WebSocket clients: websocket_endpoint connects and disconnects
\* ------------------------------------------------------------------------
WsConnect(c) ==
    /\ c \notin connections
    /\ connections' = connections \cup {c}
    /\ UNCHANGED <<env, backgroundVars, streamVars, adapterVars, workerVars, graphVars, logVars>>

WsDisconnect(c) ==
    /\ c \in connections
    /\ connections' = connections \ {c}
    /\ UNCHANGED <<env, backgroundVars, streamVars, adapterVars, workerVars, graphVars, logVars>>

\* ------------------------------------------------------------------------
\* GraphAnalyzer: _loop and the phases of run_once.  Every phase is a query
\* in its own try/except; a phase that raises leaves its key out of stats.
\* ------------------------------------------------------------------------
AlgoKeys == {"louvain", "betweenness", "pagerank", "clustering"}

AnalyzerGoto(pc) == gpc' = pc

\* a run_once whose phases are not guarded: a phase that raises ends the
\* cycle in the except of _loop, last_run_stats is not assigned
AbortCycle(ok, pc) == IF ok THEN pc ELSE "sleep"

\* where run_once goes after a phase: every phase has its own try/except,
\* so to the next phase whether the phase raised or not
AfterPhase(ok, pc) == pc

\* _loop: the sleep is over, run_once starts with an empty stats dict
AnalyzerStart ==
    /\ gpc = "sleep"
    /\ AnalyzerGoto("stats")
    /\ gstats' = {} /\ gmode' = "-"
    /\ UNCHANGED <<env, extraVars, fusionVars, startupVars, streamVars, adapterVars, workerVars, graphVars, wsVars,
                   logVars, cacheVars, matched, seenActive, last_run_stats>>

\* phase 1: BATCH_UPDATE_USER_STATS reads last_active of every user and
\* aggregates the active ones; BATCH_UPDATE_DEVICE_STATS follows in its own try
AnalyzerUserStats ==
    /\ gpc = "stats"
    /\ \E ok \in Outcomes("stats"), okd \in Outcomes("device") :
        /\ seenActive' = IF ok
                         THEN [u \in Users |-> IF userCount[u] > 0
                                               THEN userProp[u].last_active
                                               ELSE seenActive[u]]
                         ELSE seenActive
        /\ gstats' = gstats \cup (IF ok THEN {"user_stats_updated"} ELSE {})
                             \cup (IF okd THEN {"device_stats_updated"} ELSE {})
        /\ AnalyzerGoto(AfterPhase(ok /\ okd, "dormant"))
    /\ UNCHANGED <<env, gmode, extraVars, fusionVars, startupVars, streamVars, adapterVars, workerVars, graphVars, wsVars,
                   logVars, cacheVars, matched, last_run_stats>>

\* the users QUERY_FLAG_DORMANT_ACCOUNTS matches:
\* u.last_active < datetime() - duration({days: $dormant_days})
DormantMatch ==
    {u \in Users : userCount[u] > 0
                   /\ userProp[u].last_active < Today - DORMANT_DAYS_THRESHOLD}

\* phase 1b: QUERY_FLAG_DORMANT_ACCOUNTS evaluates MATCH ... WHERE (reads take
\* no lock)
AnalyzerDormantMatch ==
    /\ gpc = "dormant"
    /\ \E ok \in Outcomes("dormant") :
        IF ok THEN /\ matched' = DormantMatch
                   /\ AnalyzerGoto("flag")
        ELSE /\ AnalyzerGoto(AfterPhase(ok, "algos"))
             /\ UNCHANGED matched
    /\ UNCHANGED <<env, gmode, extraVars, fusionVars, startupVars, streamVars, adapterVars, workerVars, graphVars, wsVars,
                   logVars, cacheVars, gstats, seenActive, last_run_stats>>

\* phase 1b: SET u.is_dormant = true on the matched rows, and the commit
AnalyzerDormantSet ==
    /\ gpc = "flag"
    /\ userProp' = [u \in Users |-> IF u \in matched
                                     THEN [userProp[u] EXCEPT !.is_dormant = TRUE]
                                     ELSE userProp[u]]
    /\ matched' = {}
    /\ gstats' = gstats \cup {"dormant_flagged"}
    /\ AnalyzerGoto("algos")
    /\ UNCHANGED <<env, gmode, extraVars, fusionVars, startupVars, streamVars, adapterVars, workerVars, wsVars, logVars,
                   cacheVars, userCount, deviceCount, ipCount, txCount, txProp, userRisk,
                   sent, receivedBy, usesDevice, accessedFrom, transferredTo,
                   seenActive, last_run_stats>>

\* the algorithm queries that wrote their property: each query has its own
\* try/except, so any of them can fail alone ("algos"); with the GDS plugin
\* or the database away they fail together ("algos_all")
AlgoOutcomes ==
    IF "algos" \in env.faults THEN SUBSET AlgoKeys
    ELSE IF "algos_all" \in env.faults THEN {{}, AlgoKeys}
    ELSE {AlgoKeys}

\* _probe_gds: the GDS plugin answers the probe unless the store has none
GdsAvailable == "no_gds" \notin env.faults

\* the native algorithm queries that wrote their property: GDS_LOUVAIN,
\* GDS_BETWEENNESS, GDS_PAGERANK and GDS_LOCAL_CLUSTERING each in its own
\* try/except that only logs
NativeOutcomes ==
    IF "gds_algos" \in env.faults THEN SUBSET AlgoKeys ELSE AlgoOutcomes

\* phases 2 and 3: _run_gds_algorithms when the probe found GDS, and inside it
\* _run_fallback_algorithms when the projection cannot be created; otherwise
\* _run_fallback_algorithms; every algorithm in its own try
AnalyzerAlgorithms ==
    /\ gpc = "algos"
    /\ \E proj \in Outcomes("projection") :
        LET native == GdsAvailable /\ proj
        IN \E done \in (IF native THEN NativeOutcomes ELSE AlgoOutcomes) :
            /\ gmode' = IF native THEN "gds" ELSE "cypher-fallback"
            /\ gstats' = gstats \cup done
            /\ AnalyzerGoto(AfterPhase(done = AlgoKeys, "refresh"))
    /\ UNCHANGED <<env, extraVars, fusionVars, startupVars, streamVars, adapterVars, workerVars, graphVars, wsVars,
                   logVars, cacheVars, matched, seenActive, last_run_stats>>

\* CollusiveFraudDetector.refresh: the detection queries in the order they are
\* awaited, each assigned to its cache field when it returns
RefreshOrder == <<"fraud_islands", "money_routers", "circular_flows",
                  "rapid_chains", "star_hubs", "relay_mules">>

\* the fields get_user_flags and get_user_cluster_id read
LookupFields == {"_user_clusters", "money_routers", "circular_flows",
                 "star_hubs", "_relay_mule_ids"}

\* phase 4: one query of collusive.refresh().  A query that returns replaces
\* its field (relay_mules also rebuilds _relay_mule_ids), one that raises
\* keeps the old list; after the last query _user_clusters is rebuilt from
\* fraud_islands and refresh returns its counts.  The first query of a
\* refresh makes every other field one of an earlier refresh.
AnalyzerRefresh ==
    /\ gpc = "refresh"
    /\ \E ok \in Outcomes("refresh") :
        LET f == RefreshOrder[rpos]
            base == IF rpos = 1 THEN {} ELSE cacheFresh
            got == IF ~ok THEN base
                   ELSE base \cup {f} \cup
                        (IF f = "relay_mules" THEN {"_relay_mule_ids"} ELSE {})
        IN IF rpos < Len(RefreshOrder)
           THEN /\ cacheFresh' = got
                /\ rpos' = IF AfterPhase(ok, "refresh") = "refresh" THEN rpos + 1 ELSE 1
                /\ AnalyzerGoto(AfterPhase(ok, "refresh"))
                /\ UNCHANGED gstats
           ELSE /\ cacheFresh' = got \cup (IF "fraud_islands" \in got
                                           THEN {"_user_clusters"} ELSE {})
                /\ rpos' = 1
                /\ gstats' = gstats \cup {"detection"}
                /\ AnalyzerGoto(AfterPhase(ok, "publish"))
    /\ UNCHANGED <<env, gmode, extraVars, fusionVars, startupVars, streamVars, adapterVars, workerVars, graphVars, wsVars,
                   logVars, matched, seenActive, last_run_stats>>

\* the end of run_once: stats["elapsed_sec"], return; _loop stores the
\* dict in last_run_stats and sleeps for the interval
AnalyzerPublish ==
    /\ gpc = "publish"
    /\ last_run_stats' = gstats \cup {"elapsed_sec"}
    /\ AnalyzerGoto("sleep")
    /\ UNCHANGED <<env, gmode, extraVars, fusionVars, startupVars, streamVars, adapterVars, workerVars, graphVars, wsVars,
                   logVars, cacheVars, gstats, matched, seenActive>>

AnalyzerNext ==
    \/ AnalyzerStart
    \/ AnalyzerUserStats
    \/ AnalyzerDormantMatch
    \/ AnalyzerDormantSet
    \/ AnalyzerAlgorithms
    \/ AnalyzerRefresh
    \/ AnalyzerPublish

\* ------------------------------------------------------------------------
\* Startup: WorkerPool.start and StreamAdapter.start
\* ------------------------------------------------------------------------
\* the consumer group a component reads through: its last-delivered id and
\* its pending entries
GroupOf(c) ==
    IF c = "StreamAdapter" THEN [last |-> rawDelivered, pel |-> rawPEL]
    ELSE [last |-> fqDelivered, pel |-> fqPEL]

\* XGROUP CREATE ... id="0" makes a group that has delivered nothing;
\* XGROUP DESTROY drops the group with its pending entries
SetGroup(c, exists) ==
    /\ groupExists' = [groupExists EXCEPT ![c] = exists]
    /\ IF c = "StreamAdapter"
       THEN rawDelivered' = 0 /\ rawPEL' = {} /\ UNCHANGED <<fqDelivered, fqPEL>>
       ELSE fqDelivered' = 0 /\ fqPEL' = {} /\ UNCHANGED <<rawDelivered, rawPEL>>

\* a start() that takes no reply for "the group is there"
NeverBusyGroup(reply) == FALSE

\* "BUSYGROUP" in str(e).upper()
IsBusyGroup(reply) == reply = "BUSYGROUP"

\* what redis.xgroup_create(..., mkstream=True) answers: BUSYGROUP when the
\* group is there, OK when it made it, or another error
CreateReplies(c) ==
    (IF groupExists[c] THEN {"BUSYGROUP"} ELSE {"OK"})
        \cup (IF "redis" \in env.faults THEN {"error"} ELSE {})

\* start(): the first xgroup_create and the except around it
StartCreate(c) ==
    /\ spc[c] = "create"
    /\ \E reply \in CreateReplies(c) :
        /\ sreply' = [sreply EXCEPT ![c] = reply]
        /\ IF reply = "OK"
           THEN /\ SetGroup(c, TRUE)
                /\ spc' = [spc EXCEPT ![c] = "started"]
           ELSE /\ UNCHANGED <<groupExists, rawDelivered, rawPEL, fqDelivered, fqPEL>>
                /\ spc' = [spc EXCEPT ![c] =
                               IF IsBusyGroup(reply) THEN "started" ELSE "destroy"]
    /\ UNCHANGED <<env, extraVars, fusionVars, analyzerVars, cacheVars, rawLog, fraudQueue, adapterVars,
                   workerVars, graphVars, wsVars, logVars>>

\* start(): xgroup_destroy in its own try/except/pass
StartDestroy(c) ==
    /\ spc[c] = "destroy"
    /\ \E ok \in Outcomes("redis") :
        IF ok THEN SetGroup(c, FALSE)
        ELSE UNCHANGED <<groupExists, rawDelivered, rawPEL, fqDelivered, fqPEL>>
    /\ spc' = [spc EXCEPT ![c] = "recreate"]
    /\ UNCHANGED <<env, extraVars, fusionVars, analyzerVars, cacheVars, rawLog, fraudQueue, adapterVars,
                   workerVars, graphVars, wsVars, logVars, sreply>>

\* start(): the second xgroup_create, outside any try: an error reply leaves
\* start() by an exception
StartRecreate(c) ==
    /\ spc[c] = "recreate"
    /\ \E reply \in CreateReplies(c) :
        IF reply = "OK"
        THEN /\ SetGroup(c, TRUE)
             /\ spc' = [spc EXCEPT ![c] = "started"]
        ELSE /\ UNCHANGED <<groupExists, rawDelivered, rawPEL, fqDelivered, fqPEL>>
             /\ spc' = [spc EXCEPT ![c] = "failed"]
    /\ UNCHANGED <<env, extraVars, fusionVars, analyzerVars, cacheVars, rawLog, fraudQueue, adapterVars,
                   workerVars, graphVars, wsVars, logVars, sreply>>

\* the application is stopped (or dies) and started again: lifespan builds a
\* new StreamAdapter and a new WorkerPool, whose start() runs before any of
\* their tasks; Redis and Neo4j keep what they hold
Restart ==
    /\ restarts < MaxRestarts
    /\ restarts' = restarts + 1
    /\ \A c \in Components : spc[c] \in {"started", "failed"}
    /\ spc' = [c \in Components |-> "create"]
    /\ sreply' = [c \in Components |-> "-"]
    /\ apc' = [a \in Adapters |-> "read"]
    /\ abatch' = [a \in Adapters |-> <<>>]
    /\ acur' = [a \in Adapters |-> 0]
    /\ forwarded' = 0 /\ validation_errors' = 0
    /\ wpc' = [w \in Workers |-> "read"]
    /\ wbatch' = [w \in Workers |-> <<>>]
    /\ wcur' = [w \in Workers |-> NoCur]
    /\ processed_count' = 0 /\ deadlock_retries' = 0 /\ ingest_errors' = 0
    /\ connections' = {}
    /\ UNCHANGED <<env, analyzerVars, cacheVars, fusionVars, pureVars, everDelivered,
                   groupExists, streamVars, graphVars, logVars>>

StartupNext ==
    \/ \E c \in Components : StartCreate(c)
    \/ \E c \in Components : StartDestroy(c)
    \/ \E c \in Components : StartRecreate(c)

\* ------------------------------------------------------------------------
\* RiskEngine.score_transaction: compound boost and weighted fusion
\* ------------------------------------------------------------------------
\* Settings.WEIGHT_*, in hundredths
WEIGHT_GRAPH == 30
WEIGHT_BEHAVIORAL == 25
WEIGHT_DEVICE == 20
WEIGHT_DEAD_ACCOUNT == 15
WEIGHT_VELOCITY == 10
CIRCADIAN_ANOMALY_PENALTY == 20
CIRCADIAN_NEW_DEVICE_PENALTY == 35

\* the 100.0 of min(..., 100.0)
ScoreCap == 100

\* a boost that is added without the min
BoostUnclamped(s, boost) == s + boost

\* s_behavioral = min(s_behavioral + circadian_boost, 100.0)
Boosted(s, boost) == Min(s + boost, ScoreCap)

\* step 2b: the boost applies when the behavioural extractor saw a circadian
\* anomaly and the device extractor a new device
Behavioral(x) ==
    IF x.circadian_anomaly /\ x.new_device_flag
    THEN Boosted(x.behavioral, CIRCADIAN_NEW_DEVICE_PENALTY - CIRCADIAN_ANOMALY_PENALTY)
    ELSE x.behavioral

\* the weighted sum of step 3 in exact arithmetic, in hundredths
WeightedSum(x, beh) ==
    WEIGHT_GRAPH * x.graph + WEIGHT_BEHAVIORAL * beh + WEIGHT_DEVICE * x.device
        + WEIGHT_DEAD_ACCOUNT * x.dead + WEIGHT_VELOCITY * x.velocity

\* the weights are binary floats and every product and sum is rounded: the
\* float result is the exact sum or a neighbour of it; the terms are all
\* >= 0, so it is never below 0, and a sum of zeros is exactly 0
FloatSums(exact) ==
    IF exact = 0 THEN {0} ELSE {exact - 1, exact, exact + 1}

\* fused = min(fused, 100.0)
Fuse ==
    /\ fpc = "extract"
    /\ s_behavioral' = Behavioral(sub)
    /\ \E raw \in FloatSums(WeightedSum(sub, Behavioral(sub))) :
        fused' = Min(raw, ScoreCap * 100)
    /\ fpc' = "done"
    /\ UNCHANGED <<env, extraVars, sub, analyzerVars, cacheVars, startupVars, streamVars,
                   adapterVars, workerVars, graphVars, wsVars, logVars>>

FusionNext == Fuse

\* ------------------------------------------------------------------------
\* one call of _build_reason on its own
\* ------------------------------------------------------------------------

\* score_transaction step 6
Explain ==
    /\ bpc = "build"
    /\ breason' = BuildReason(bfired, bfused)
    /\ bpc' = "done"
    /\ UNCHANGED <<env, bfired, bfused, twinVars, everDelivered, restarts, analyzerVars,
                   cacheVars, startupVars,
                   fusionVars, streamVars, adapterVars, workerVars, graphVars,
                   wsVars, logVars>>

ReasonNext == Explain

\* ------------------------------------------------------------------------
\* Specification
\* ------------------------------------------------------------------------
Next ==
    \/ \E p \in Payloads : PublishRaw(p)
    \/ \E a \in Adapters : AdapterRead(a)
    \/ \E a \in Adapters : AdapterValidate(a)
    \/ \E a \in Adapters : AdapterPublish(a)
    \/ \E a \in Adapters : AdapterAck(a)
    \/ \E w \in Workers : WorkerRead(w)
    \/ \E w \in Workers : WorkerDecode(w)
    \/ \E w \in Workers : WorkerIngestCommit(w)
    \/ \E w \in Workers : WorkerIPCommit(w)
    \/ \E w \in Workers : WorkerScore(w)
    \/ \E w \in Workers : WorkerPersist(w)
    \/ \E w \in Workers : WorkerWriteBack(w)
    \/ \E w \in Workers : WorkerAlert(w)
    \/ \E w \in Workers : WorkerAck(w)
    \/ \E c \in WsClients : WsConnect(c)
    \/ \E c \in WsClients : WsDisconnect(c)

\* Environments: the payloads the gateway publishes, the users the seed
\* script created, the error classes the store raises besides constraint
\* violations, the fused scores, and the calls that can fail.

\* the worker pipeline with every failure of a stage
EnvPipeline == [payloads |-> {P1}, seeded |-> {"U1", "U2"},
                errors |-> {"transient", "other"}, scores |-> {40},
                faults |-> {"ip", "score", "persist", "writeback", "send"}]

\* the adapter between the two logs, with a failing append
EnvAdapter == [payloads |-> {P1, PBad}, seeded |-> {"U1", "U2"},
               errors |-> {}, scores |-> {40}, faults |-> {"publish"}]

\* the write path: same and different tx_ids, a user the graph does not have
EnvGraph == [payloads |-> {P1, P2, P3}, seeded |-> {"U1"},
             errors |-> {"not_found"}, scores |-> {40}, faults |-> {}]

\* scoring: every status, failing persist and write-back
EnvStatus == [payloads |-> {P1}, seeded |-> {"U1", "U2"},
              errors |-> {}, scores |-> RiskScores,
              faults |-> {"persist", "writeback"}]

\* after scoring: failing write-back and failing sends to clients
EnvAfterScore == [payloads |-> {P1}, seeded |-> {"U1", "U2"},
                  errors |-> {}, scores |-> {40},
                  faults |-> {"writeback", "send"}]

\* order of processing: a failing ingest and a failing scoring
EnvOrder == [payloads |-> {P1}, seeded |-> {"U1", "U2"},
             errors |-> {"other"}, scores |-> {40},
             faults |-> {"score"}]

\* a store that answers ingest writes with constraint errors
EnvRetry == [payloads |-> {P1, P3}, seeded |-> {"U1", "U2"},
             errors |-> {"constraint"}, scores |-> {40},
             faults |-> {}]

\* ingests next to the analytics batch
EnvBatch == [payloads |-> {P1, P3}, seeded |-> {"U1", "U2"},
             errors |-> {}, scores |-> {40},
             faults |-> {}]

\* scoring with a failing transaction-level risk write
EnvUserRisk == [payloads |-> {P1}, seeded |-> {"U1", "U2"},
                errors |-> {}, scores |-> {40, 70},
                faults |-> {"persist_tx"}]

\* the analytics batch alone, every phase failing at will
EnvAnalyzer == [payloads |-> {}, seeded |-> {"U1", "U2"},
                errors |-> {}, scores |-> {40},
                faults |-> {"stats", "dormant", "algos_all", "refresh"}]

\* a restart: Redis may fail, and holds what an earlier run left
EnvStartup == [payloads |-> {P1, P3}, seeded |-> {"U1", "U2"},
               errors |-> {}, scores |-> {40}, faults |-> {"redis"}]

\* the entries an earlier run left in upi_raw and in fraud_queue
PrevLog == [i \in 1..MaxPublish |-> IF i = 1 THEN P1 ELSE P3]

\* the application starts against a Redis an earlier run has used: each
\* group is absent, or has delivered some entries of which some are pending
InitStartup ==
    /\ InitMemory(EnvStartup)
    /\ rawLog = PrevLog /\ fraudQueue = PrevLog
    /\ groupExists \in [Components -> BOOLEAN]
    /\ rawDelivered \in (IF groupExists["StreamAdapter"] THEN 0..Len(rawLog) ELSE {0})
    /\ rawPEL \in SUBSET (1..rawDelivered)
    /\ fqDelivered \in (IF groupExists["WorkerPool"] THEN 0..Len(fraudQueue) ELSE {0})
    /\ fqPEL \in {q \in SUBSET ((1..fqDelivered) \X Workers) :
                     \A e, f \in q : e[1] = f[1] => e = f}
    /\ spc = [c \in Components |-> "create"]
    /\ sreply = [c \in Components |-> "-"]
    /\ fpc = "done" /\ sub = NoSub /\ s_behavioral = 0 /\ fused = 0
    /\ ReasonIdle /\ TwinIdle /\ everDelivered = 1..fqDelivered /\ restarts = 0

\* the sub-scores the fusion is tried on: SubScoreLevels equal steps of 0..100
SubScores == {(ScoreCap * k) \div SubScoreLevels : k \in 0..SubScoreLevels}

\* score_transaction after the gather: any five sub-scores, either flag
InitFusion ==
    /\ InitMemory(EnvAnalyzer)
    /\ rawLog = <<>> /\ rawDelivered = 0 /\ rawPEL = {}
    /\ fraudQueue = <<>> /\ fqDelivered = 0 /\ fqPEL = {}
    /\ groupExists = [c \in Components |-> TRUE]
    /\ spc = [c \in Components |-> "started"]
    /\ sreply = [c \in Components |-> "OK"]
    /\ fpc = "extract"
    /\ sub \in [graph : SubScores, behavioral : SubScores, device : SubScores,
                 dead : SubScores, velocity : SubScores,
                 circadian_anomaly : BOOLEAN, new_device_flag : BOOLEAN]
    /\ s_behavioral = 0 /\ fused = 0
    /\ ExtraIdle

\* the fused risks _build_reason is tried on, around both thresholds
FusedSamples == {0, MEDIUM_RISK_THRESHOLD - 1, MEDIUM_RISK_THRESHOLD,
                 HIGH_RISK_THRESHOLD - 1, HIGH_RISK_THRESHOLD, ScoreCap}

\* score_transaction before step 6: up to MaxTriggers conditions hold
InitReason ==
    /\ InitMemory(EnvAnalyzer)
    /\ rawLog = <<>> /\ rawDelivered = 0 /\ rawPEL = {}
    /\ fraudQueue = <<>> /\ fqDelivered = 0 /\ fqPEL = {}
    /\ groupExists = [c \in Components |-> TRUE]
    /\ spc = [c \in Components |-> "started"]
    /\ sreply = [c \in Components |-> "OK"]
    /\ fpc = "done" /\ sub = NoSub /\ s_behavioral = 0 /\ fused = 0
    /\ bpc = "build"
    /\ bfired \in {f \in SUBSET (1..Len(Templates)) : Cardinality(f) <= MaxTriggers}
    /\ bfused \in FusedSamples
    /\ breason = "-"
    /\ TwinIdle
    /\ everDelivered = {} /\ restarts = 0

\* the retry ladder: every error class the ladder tells apart
EnvLadder == [payloads |-> {P1}, seeded |-> {"U1", "U2"},
              errors |-> {"transient", "not_found"},
              scores |-> {40}, faults |-> {}]

\* restarts of the application over a Redis that can fail
EnvRestart == [payloads |-> {P1}, seeded |-> {"U1", "U2"},
               errors |-> {}, scores |-> {40}, faults |-> {"redis"}]

\* the stages after the ingest can fail: the INGEST_IP write and the scoring
EnvPending == [payloads |-> {P1}, seeded |-> {"U1", "U2"},
               errors |-> {}, scores |-> {40}, faults |-> {"ip", "score"}]

\* the native path of the batch: the projection and the GDS algorithms can
\* fail, the pure-query algorithms cannot
EnvNative == [payloads |-> {}, seeded |-> {"U1", "U2"},
              errors |-> {}, scores |-> {40},
              faults |-> {"projection", "gds_algos"}]

Init == InitWith(EnvPipeline)
InitNative == InitWith(EnvNative)
InitPending == InitWith(EnvPending)
InitRestart == InitWith(EnvRestart)
InitLadder == InitWith(EnvLadder)
InitAnalyzer == InitWith(EnvAnalyzer)
InitUserRisk == InitWith(EnvUserRisk)
InitBatch == InitWith(EnvBatch)
InitRetry == InitWith(EnvRetry)
InitOrder == InitWith(EnvOrder)
InitAfterScore == InitWith(EnvAfterScore)
InitAdapter == InitWith(EnvAdapter)
InitGraph == InitWith(EnvGraph)
InitStatus == InitWith(EnvStatus)

Spec == Init /\ [][Next]_vars
SpecAdapter == InitAdapter /\ [][Next]_vars
SpecGraph == InitGraph /\ [][Next]_vars
SpecStatus == InitStatus /\ [][Next]_vars
SpecUserRisk == InitUserRisk /\ [][Next]_vars

\* the pipeline together with the analytics batch
NextBatch == Next \/ AnalyzerNext
SpecBatch == InitBatch /\ [][NextBatch]_vars
SpecStartup == InitStartup /\ [][StartupNext]_vars
SpecFusion == InitFusion /\ [][FusionNext]_vars
SpecNative == InitNative /\ [][AnalyzerNext]_vars

\* the steps of one adapter task and of one worker task
AdapterNext(a) ==
    AdapterRead(a) \/ AdapterValidate(a) \/ AdapterPublish(a) \/ AdapterAck(a)
WorkerNext(w) ==
    \/ WorkerRead(w) \/ WorkerDecode(w) \/ WorkerIngestCommit(w) \/ WorkerIPCommit(w)
    \/ WorkerScore(w) \/ WorkerPersist(w) \/ WorkerWriteBack(w) \/ WorkerAlert(w)
    \/ WorkerAck(w)

\* the event loop runs every task that can go on: no adapter and no worker
\* waits forever with a step to take
TaskFairness ==
    /\ \A a \in Adapters : WF_vars(AdapterNext(a))
    /\ \A w \in Workers : WF_vars(WorkerNext(w))

SpecPending == InitPending /\ [][Next]_vars /\ TaskFairness
NextRestart == Next \/ Restart \/ StartupNext
SpecRestart == InitRestart /\ [][NextRestart]_vars
SpecLadder == InitLadder /\ [][Next]_vars
SpecReason == InitReason /\ [][ReasonNext]_vars

\* the analytics batch alone; the event loop runs the analyzer task whenever
\* its sleep or its await is over
SpecAnalyzer == InitAnalyzer /\ [][AnalyzerNext]_vars /\ WF_vars(AnalyzerNext)
SpecRetry == InitRetry /\ [][Next]_vars
SpecOrder == InitOrder /\ [][Next]_vars
SpecAfterScore == InitAfterScore /\ [][Next]_vars

TypeOK ==
    /\ rawDelivered \in 0..Len(rawLog)
    /\ fqDelivered \in 0..Len(fraudQueue)
    /\ \A w \in Workers : wcur[w].attempt \in 0..(MAX_RETRIES - 1)

\* ------------------------------------------------------------------------
\* Claims
\* ------------------------------------------------------------------------
SeqElems(q) == {q[i] : i \in 1..Len(q)}

\* the entries of fraud_queue a worker still holds: the one in its pipeline
\* and the rest of its batch
Held(w) == (IF wcur[w].id = 0 THEN {} ELSE {wcur[w].id}) \cup SeqElems(wbatch[w])

Pending(id) == \E w \in Workers : <<id, w>> \in fqPEL

\* C1: every message delivered to a worker is eventually acknowledged, whether
\* its pipeline succeeds or a stage fails.  Workers only read never-delivered
\* entries, so an entry that is pending while its consumer no longer holds it
\* stays pending forever: the claim says there is no such entry.
C1_DeliveredIsAcked ==
    \A e \in fqPEL : e[1] \in Held(e[2])

\* C2: a message whose processing failed terminally before scoring (decode, or
\* the ingest write raising on its last attempt) is acknowledged and counted
\* in ingest_errors.
C2_DroppedIsAckedAndCounted ==
    /\ \A e \in errorLog : e.stage \in {"decode", "ingest"} => ~Pending(e.id)
    /\ ingest_errors = Cardinality(errorLog)

C10_ValidAckedOnlyAfterForward ==
    Cardinality({i \in 1..rawDelivered : Validates(rawLog[i]) /\ i \notin rawPEL})
        <= Len(fraudQueue)

\* the payload of a worker's current message was ingested before: its
\* Transaction node exists with the same amount, sender and receiver
AlreadyIngested(p) ==
    /\ txCount[p.tx_id] > 0
    /\ txProp[p.tx_id].amount = p.amount
    /\ <<p.sender_id, p.tx_id>> \in sent
    /\ <<p.tx_id, p.receiver_id>> \in receivedBy

\* C4: double-publishing the same tx_id yields at most one Transaction node
\* and leaves the TRANSFERRED_TO edge as it was after the first ingest: an
\* ingest step of a payload that was ingested before changes neither the
\* number of Transaction nodes nor the total_amount and tx_count of the edge.
C4_DoublePublishLeavesEdge ==
    [][\A w \in Workers :
        LET p == Payload(w) IN
        (/\ wpc[w] = "ingest"
         /\ (wpc'[w] # wpc[w] \/ wcur'[w] # wcur[w])
         /\ AlreadyIngested(p))
        => /\ txCount'[p.tx_id] <= 1
           /\ transferredTo'[<<p.sender_id, p.receiver_id>>] =
                  transferredTo[<<p.sender_id, p.receiver_id>>]]_vars

\* the Transaction nodes sent by s and received by r
TxBetween(s, r) ==
    {t \in TxIds : txCount[t] > 0 /\ <<s, t>> \in sent /\ <<t, r>> \in receivedBy}

RECURSIVE SumAmount(_)
SumAmount(ts) ==
    IF ts = {} THEN 0
    ELSE LET t == CHOOSE x \in ts : TRUE
         IN txProp[t].amount + SumAmount(ts \ {t})

\* C5: for every ordered pair joined by a TRANSFERRED_TO edge, total_amount is
\* the sum of the amounts of the Transaction nodes sent by s and received by
\* r, and tx_count is their number.
C5_EdgeIsSumOfTransactions ==
    \A s \in Users, r \in Users :
        transferredTo[<<s, r>>].tx_count > 0 =>
            /\ transferredTo[<<s, r>>].total_amount = SumAmount(TxBetween(s, r))
            /\ transferredTo[<<s, r>>].tx_count = Cardinality(TxBetween(s, r))

Scored(status) == status \in {"COMPLETED", "FLAGGED", "BLOCKED"}

\* C7: once the status of a Transaction has left PENDING it is never written
\* to a different value again.
C7_StatusWrittenOnce ==
    [][\A t \in TxIds :
        Scored(txProp[t].status) => txProp'[t].status = txProp[t].status]_vars

\* C8: a Transaction node whose status is not PENDING has the status its
\* stored risk_score maps to (BLOCKED at or above HIGH_RISK_THRESHOLD, FLAGGED
\* at or above MEDIUM_RISK_THRESHOLD and below HIGH_RISK_THRESHOLD, COMPLETED
\* below), and so has every emitted alert with its riskScore.
C8_StatusMatchesRisk ==
    LET Mapped(score) ==
            IF score >= HIGH_RISK_THRESHOLD THEN "BLOCKED"
            ELSE IF score >= MEDIUM_RISK_THRESHOLD THEN "FLAGGED"
            ELSE "COMPLETED"
    IN  /\ \A t \in TxIds :
            Scored(txProp[t].status) =>
                txProp[t].status = Mapped(txProp[t].risk_score)
        /\ \A w \in Workers :
            wcur[w].alert # NoAlert =>
                wcur[w].alert.status = Mapped(wcur[w].alert.riskScore)

\* C9: every Transaction node has exactly one incoming SENT edge and exactly
\* one outgoing RECEIVED_BY edge.
C9_OneSentOneReceivedBy ==
    \A t \in TxIds :
        txCount[t] > 0 =>
            /\ Cardinality({u \in Users : <<u, t>> \in sent}) = 1
            /\ Cardinality({u \in Users : <<t, u>> \in receivedBy}) = 1

StageRank(pc) ==
    CASE pc = "read" -> 0
      [] pc = "decode" -> 1
      [] pc = "ingest" -> 2
      [] pc = "ip" -> 3
      [] pc = "score" -> 4
      [] pc = "persist" -> 5
      [] pc = "writeback" -> 6
      [] pc = "alert" -> 7
      [] pc = "ack" -> 8

\* C12: a worker processes its messages one at a time in the order it read
\* them: while it keeps a message its stages only move forward, one stage at
\* a time (the IP write is skipped for a payload without IP); it leaves a
\* message only at the end of _process_message (the XACK, or the outer
\* except); the message it takes next is a later entry of the stream; and an
\* entry is acknowledged only by its worker at the XACK step, after the
\* ingest (the Transaction node exists), the scoring and the alert dispatch
\* of that message.
C12_InOrderAckAfterAllStages ==
    [][\A w \in Workers :
        LET cur == wcur[w] IN
        /\ (cur.id # 0 /\ wcur'[w].id = cur.id) =>
               /\ StageRank(wpc'[w]) >= StageRank(wpc[w])
               /\ \/ StageRank(wpc'[w]) <= StageRank(wpc[w]) + 1
                  \/ wpc[w] = "ingest" /\ wpc'[w] = "score"
        /\ (cur.id # 0 /\ wcur'[w].id # cur.id) =>
               /\ wpc[w] = "ack" \/ errorLog' # errorLog
               /\ wcur'[w].id # 0 => wcur'[w].id > cur.id
        /\ (<<cur.id, w>> \in fqPEL /\ <<cur.id, w>> \notin fqPEL') =>
               /\ wpc[w] = "ack"
               /\ txCount[Payload(w).tx_id] > 0
               /\ cur.score > 0
               /\ cur.alert # NoAlert
        /\ \A id \in 1..Len(fraudQueue) :
               (<<id, w>> \in fqPEL /\ <<id, w>> \notin fqPEL') => id = cur.id]_vars

\* C12 witness: a worker that read two messages in one batch is at the XACK
\* of the first, the second still waiting in its batch
C12_Witness ==
    \E w \in Workers :
        /\ wpc[w] = "ack"
        /\ wbatch[w] # <<>>
        /\ wcur[w].alert # NoAlert

\* C13: when the only error of the ingest write is the constraint error and
\* the earlier attempts raised it, the last of the MAX_RETRIES attempts returns
\* without raising, whether it commits or raises the error again: in the
\* latter case the write is skipped (the graph is left as it is); no error is
\* counted, the message stays with its worker
\* and goes on to the IP write or the scoring; and a message that was skipped
\* this way and came through the later stages to the XACK is acknowledged and
\* counted as processed.
C13_ConstraintExhaustedSkips ==
    [][\A w \in Workers :
        /\ (/\ wpc[w] = "ingest"
            /\ wcur[w].attempt = MAX_RETRIES - 1
            /\ wcur[w].exc = "constraint"
            /\ env.errors \subseteq {"constraint"}
            /\ (wpc'[w] # wpc[w] \/ wcur'[w] # wcur[w]))
           => /\ wpc'[w] = (IF Payload(w).ip_address # NoIP THEN "ip" ELSE "score")
              /\ wcur'[w].id = wcur[w].id
              /\ wcur'[w].exc = "constraint" => graphVars' = graphVars
              /\ ingest_errors' = ingest_errors
              /\ errorLog' = errorLog
        /\ (/\ wcur[w].exc = "constraint"
            /\ wpc[w] = "ack"
            /\ wcur'[w] # wcur[w])
           => /\ <<wcur[w].id, w>> \notin fqPEL'
              /\ processed_count' = processed_count + 1]_vars

\* C13 witness: a worker at the XACK of a message whose ingest was skipped
\* after MAX_RETRIES constraint errors
C13_Witness ==
    \E w \in Workers :
        /\ wpc[w] = "ack"
        /\ wcur[w].exc = "constraint"
        /\ wcur[w].attempt = MAX_RETRIES - 1

\* C14: when the analyzer is between two cycles, every user flagged dormant
\* was last active more than DORMANT_DAYS_THRESHOLD days ago, however the
\* ingests interleave with the dormant-flagging step of the batch.
C14_DormantImpliesInactive ==
    gpc = "sleep" =>
        \A u \in Users :
            (userCount[u] > 0 /\ userProp[u].is_dormant) =>
                userProp[u].last_active < Today - DORMANT_DAYS_THRESHOLD

\* C15: for every user, the last_active a batch run reads is not smaller than
\* the one the previous batch run read, whatever events were ingested between
\* the two runs.
C15_LastActiveNonDecreasing ==
    [][\A u \in Users :
        (userCount[u] > 0 /\ seenActive[u] > 0) => seenActive'[u] >= seenActive[u]]_vars

\* the fields a lookup reads come from one refresh: all of them from the
\* latest one, or none of them
SingleSnapshot ==
    LookupFields \subseteq cacheFresh \/ LookupFields \cap cacheFresh = {}

\* C16: a hot-path lookup (get_user_flags / get_user_cluster_id, run by the
\* scoring of a message) observes a single snapshot of the collusive-pattern
\* cache, also while a refresh is in progress.
C16_LookupSeesOneSnapshot ==
    [][\A w \in Workers :
        (wpc[w] = "score" /\ wpc'[w] = "persist") => SingleSnapshot]_vars

\* C17: the persist step of every scoring that returns sets the risk_score of
\* the sender to the fused risk of that scoring, whether or not the
\* transaction-level risk write of the same step succeeded.
C17_UserRiskSetOnEveryScoring ==
    [][\A w \in Workers :
        (/\ wpc[w] = "persist" /\ wpc'[w] = "writeback"
         /\ userCount[Payload(w).sender_id] > 0)
        => userRisk'[Payload(w).sender_id] = wcur[w].score]_vars

\* the keys of a cycle none of whose phases raised
AllStatsKeys ==
    {"user_stats_updated", "device_stats_updated", "dormant_flagged",
     "detection", "elapsed_sec"} \cup AlgoKeys

\* C18: every analytics cycle that starts comes to its end and publishes its
\* stats with elapsed_sec in last_run_stats, whichever phases raised; between
\* cycles last_run_stats is empty (no cycle yet) or holds elapsed_sec; and a
\* cycle that published with failed phases is followed by another cycle.
C18_CycleTerminatesAndRepeats ==
    /\ (gpc = "stats") ~>
           (gpc = "sleep" /\ last_run_stats = gstats \cup {"elapsed_sec"})
    /\ [](gpc = "sleep" => (last_run_stats = {} \/ "elapsed_sec" \in last_run_stats))
    /\ (gpc = "sleep" /\ last_run_stats # {} /\ last_run_stats # AllStatsKeys)
           ~> (gpc = "stats")

\* C18 witness: a cycle whose aggregation, dormant flagging, graph algorithms
\* and refresh queries failed has published its stats
C18_Witness ==
    /\ gpc = "sleep"
    /\ last_run_stats = {"device_stats_updated", "detection", "elapsed_sec"}
    /\ cacheFresh = {}

\* C19: a start() whose XGROUP CREATE is answered BUSYGROUP goes on to started
\* and leaves the group's last-delivered id and pending entries as they were,
\* and never fails; a step of start() that changes a group that exists
\* (destroy and recreate) happens only after the first create failed with
\* another error.
C19_ExistingGroupLeftAlone ==
    [][\A c \in Components :
        /\ (spc[c] = "create" /\ sreply'[c] = "BUSYGROUP") =>
               /\ spc'[c] = "started"
               /\ GroupOf(c)' = GroupOf(c)
               /\ groupExists'[c]
        /\ sreply'[c] = "BUSYGROUP" => spc'[c] # "failed"
        /\ (groupExists[c] /\ (GroupOf(c)' # GroupOf(c) \/ ~groupExists'[c])) =>
               sreply[c] = "error"]_vars

\* C19 witness: the worker pool has started on a group that had delivered
\* entries and still holds one pending
C19_Witness ==
    /\ spc["WorkerPool"] = "started"
    /\ sreply["WorkerPool"] = "BUSYGROUP"
    /\ fqDelivered > 0
    /\ fqPEL # {}

\* C20: once the fusion has run on five sub-scores in 0..100, with or without
\* the circadian/new-device boost, the fused risk lies in 0..100 (held here in
\* hundredths) and the behavioural sub-score it used is at most 100.
C20_FusedWithinBounds ==
    fpc = "done" =>
        /\ 0 <= fused /\ fused <= 100 * 100
        /\ 0 <= s_behavioral /\ s_behavioral <= 100

\* C20 witness: every sub-score at 100 and the boost applied
C20_Witness ==
    /\ fpc = "done"
    /\ sub.graph = 100 /\ sub.behavioral = 100 /\ sub.device = 100
    /\ sub.dead = 100 /\ sub.velocity = 100
    /\ sub.circadian_anomaly /\ sub.new_device_flag
    /\ s_behavioral = 100
    /\ fused = 100 * 100

\* C21: the reason _build_reason returns is never empty, whatever conditions
\* hold and whatever the fused risk; when no condition holds it is exactly
\* "No significant risk indicators" or "Multiple minor indicators combined
\* above threshold."
C21_ReasonNeverEmpty ==
    bpc = "done" =>
        /\ breason # ""
        /\ Len(breason) > 0
        /\ bfired = {} =>
               breason \in {"No significant risk indicators",
                            "Multiple minor indicators combined above threshold."}

\* C21 witness: nothing fired at a fused risk of 100, and the fallback
\* sentence came back
C21_Witness ==
    /\ bpc = "done"
    /\ bfired = {}
    /\ bfused = 100
    /\ breason = "Multiple minor indicators combined above threshold."

\* C23: when the ingest step of a worker ends without error (the write
\* committed, nothing swallowed), the graph holds the sender, the receiver and
\* the Transaction node of the message with its SENT and RECEIVED_BY edges
\* before scoring starts, also when the sender or the receiver was not in the
\* graph when the message arrived.
C23_IngestLeavesUsersAndTransaction ==
    [][\A w \in Workers :
        (/\ wpc[w] = "ingest"
         /\ wpc'[w] \in {"ip", "score"}
         /\ wcur'[w].exc = "-")
        => LET p == Payload(w)
           IN /\ userCount'[p.sender_id] > 0
              /\ userCount'[p.receiver_id] > 0
              /\ txCount'[p.tx_id] > 0
              /\ <<p.sender_id, p.tx_id>> \in sent'
              /\ <<p.tx_id, p.receiver_id>> \in receivedBy']_vars

\* the attempts _ingest_with_retry has issued for a message, the current one
\* included: those of the safe query come after the MAX_RETRIES the lock-free
\* query has at most
LadderRank(c) == (IF c.query = "SAFE" THEN MAX_RETRIES ELSE 0) + c.attempt

\* C30: the ingest step terminates.  Every step that stays in the ingest step
\* moves strictly up the ladder (next attempt of the same query, or from the
\* lock-free query to the safe one and never back), no query gets more than
\* MAX_RETRIES attempts, and deadlock_retries changes only by one, on a retry
\* after a transient error.
C30_IngestTerminates ==
    [][\A w \in Workers :
        /\ wpc[w] = "ingest" => wcur[w].attempt < MAX_RETRIES
        /\ (wpc[w] = "ingest" /\ wpc'[w] = "ingest" /\ wcur'[w] # wcur[w]) =>
               /\ LadderRank(wcur'[w]) > LadderRank(wcur[w])
               /\ wcur'[w].id = wcur[w].id
               /\ wcur[w].query = "SAFE" => wcur'[w].query = "SAFE"
        /\ (wcur'[w] # wcur[w] /\ deadlock_retries' # deadlock_retries) =>
               /\ deadlock_retries' = deadlock_retries + 1
               /\ wpc[w] = "ingest" /\ wpc'[w] = "ingest"
               /\ wcur'[w].exc = "transient"
               /\ wcur'[w].attempt = wcur[w].attempt + 1]_vars

\* C30 witness: a worker is on the last attempt of the safe query after a
\* fallback, and transient retries have been counted
C30_Witness ==
    \E w \in Workers :
        /\ wpc[w] = "ingest"
        /\ wcur[w].query = "SAFE"
        /\ wcur[w].attempt = MAX_RETRIES - 1
        /\ deadlock_retries >= 2

\* C27: every fraud_queue entry is handed to at most one worker, once: an
\* XREADGROUP of a worker never returns an entry that was delivered before,
\* in the same run or before a restart of the pool.
C27_DeliveredAtMostOnce ==
    [][\A w \in Workers : \A id \in 1..Len(fraudQueue) :
        (<<id, w>> \in fqPEL' /\ <<id, w>> \notin fqPEL) => id \notin everDelivered]_vars

\* C28: every Transaction node the ingest creates (status PENDING) eventually
\* leaves PENDING, also when the INGEST_IP write or the scoring of its message
\* fails after the ingest.
C28_PendingEventuallyScored ==
    \A t \in TxIds : (txProp[t].status = "PENDING") ~> (txProp[t].status # "PENDING")

\* C24: in a cycle where only native (GDS) steps can fail, the graph-algorithm
\* phase ends with every one of community detection, betweenness, pagerank and
\* clustering written: a native step that fails is made up for by the
\* pure-query path.
C24_NativeFailureFallsBack ==
    [][(gpc = "algos" /\ gpc' # "algos") => AlgoKeys \subseteq gstats']_vars

\* a failing read of the behavioural extractor, nothing else fails
EnvReads == [payloads |-> {P1}, seeded |-> {"U1", "U2"},
             errors |-> {}, scores |-> {40}, faults |-> {"behav_read"}]

InitReads == InitWith(EnvReads)
SpecReads == InitReads /\ [][Next]_vars

\* C29: the reason "No significant risk indicators" is never persisted on a
\* transaction nor sent in an alert whose status is FLAGGED or BLOCKED.
C29_NoRiskReasonOnlyBelowMedium ==
    /\ \A t \in TxIds :
        txProp[t].status \in {"FLAGGED", "BLOCKED"} =>
            txProp[t].reason # "No significant risk indicators"
    /\ \A w \in Workers :
        wcur[w].alert.status \in {"FLAGGED", "BLOCKED"} =>
            wcur[w].alert.semanticAlert # "No significant risk indicators"

\* C26: when scoring follows the ingest of the first transaction a sender
\* makes from a device (no earlier fraud_queue entry has that sender and
\* device, and the graph started without the link), the device extractor
\* reports new_device_flag = true and adds NEW_DEVICE_PENALTY.
C26_FirstUseOfDeviceIsFlagged ==
    [][\A w \in Workers :
        LET p == Payload(w)
            first == \A i \in 1..(wcur[w].id - 1) :
                        ~(fraudQueue[i].sender_id = p.sender_id
                          /\ fraudQueue[i].device_id = p.device_id)
        IN (wpc[w] = "score" /\ wpc'[w] = "persist" /\ first) =>
              /\ wcur'[w].new_device_flag
              /\ wcur'[w].new_device_score = NEW_DEVICE_PENALTY]_vars

\* C25: when one graph read of the behavioural extractor fails, the scoring
\* step still returns a result for the message: the worker goes on to the
\* persist step with the same message, it does not drop it unscored.
C25_FailedReadIsNoSignal ==
    [][\A w \in Workers :
        (wpc[w] = "score" /\ wpc'[w] # "score") =>
            (wpc'[w] = "persist" /\ wcur'[w].id = wcur[w].id)]_vars

\* ------------------------------------------------------------------------
\* Steps 1b, 2 and 3 of _process_message for one transaction, run twice on
\* the same transaction and the same graph; the runs differ only in what
\* random.choice and random.uniform return.  Coordinates are in tenths of a
\* degree.
\* ------------------------------------------------------------------------
IMPOSSIBLE_TRAVEL_KMH == 250

\* kilometres per degree in the distance of two points
KmPerDegree == 111

Abs(x) == IF x < 0 THEN 0 - x ELSE x

\* _haversine_km / _haversine: the distance of two points, in km
Distance(a, b) == (KmPerDegree * (Abs(a.lat - b.lat) + Abs(a.lon - b.lon))) \div 10

\* "if a_lat and a_lon and b_lat and b_lon"
BothSet(a, b) == a.lat # 0 /\ a.lon # 0 /\ b.lat # 0 /\ b.lon # 0

Mumbai == [lat |-> 191, lon |-> 729]
London == [lat |-> 515, lon |-> -1]

\* _gateways of step 1b
Gateways == {[lat |-> 515, lon |-> -1, city |-> "London"],
             [lat |-> 558, lon |-> 376, city |-> "Moscow"],
             [lat |-> 252, lon |-> 553, city |-> "Dubai"],
             [lat |-> 14, lon |-> 1038, city |-> "Singapore"],
             [lat |-> 407, lon |-> -740, city |-> "New York"]}

\* _regions of step 1b
Regions == {[lat |-> 191, lon |-> 729, city |-> "Mumbai"],
            [lat |-> 287, lon |-> 771, city |-> "Delhi"],
            [lat |-> 131, lon |-> 803, city |-> "Chennai"],
            [lat |-> 226, lon |-> 884, city |-> "Kolkata"],
            [lat |-> 174, lon |-> 785, city |-> "Hyderabad"]}

\* random.uniform(-d, d): the two ends of the interval
Jitter(d) == {0 - d, d}

\* asn_info["org_name"][:30] of the resolved address
OrgName == "Example Net"

AsnClasses == {"MOBILE_ISP", "INDIAN_CLOUD", "FOREIGN"}

\* _CLASS_BASE_SCORES, in percent
ClassBase(cls) ==
    CASE cls = "FOREIGN" -> 80
      [] cls = "INDIAN_CLOUD" -> 60
      [] OTHER -> 0

\* foreign_flag of resolve(): the address is not Indian
ForeignFlag(cls) == cls = "FOREIGN"

\* step 1b: the geo fields one run writes with INGEST_IP
SynthGeo(tx) ==
    LET dev == tx.sender
        has == dev.lat # 0 \/ dev.lon # 0
    IN IF tx.asn_class \in {"FOREIGN", "HOSTING", "SATELLITE"} /\ has
       THEN {[lat |-> g.lat + j, lon |-> g.lon + k, city |-> g.city] :
                g \in Gateways, j \in Jitter(1), k \in Jitter(1)}
       ELSE IF tx.asn_class \in {"INDIAN_CLOUD", "CLOUD"} /\ has
       THEN {[lat |-> g.lat + j, lon |-> g.lon + k, city |-> g.city] :
                g \in Regions, j \in Jitter(5), k \in Jitter(5)}
       ELSE IF has
       THEN {[lat |-> dev.lat + j, lon |-> dev.lon + k, city |-> OrgName] :
                j \in Jitter(3), k \in Jitter(3)}
       ELSE {[lat |-> 0, lon |-> 0, city |-> OrgName]}

\* a behavioural extractor that takes the user's last position from the IP
\* node of the transaction
LastLocationFromIP(profile, ipnode) == [lat |-> ipnode.lat, lon |-> ipnode.lon]

\* geo features: last_lat, last_lon = profile.get("last_lat"), .get("last_lon")
LastLocation(profile, ipnode) == profile

\* what the extractors read for the transaction: the request's position, the
\* profile row, the time since the last transaction, the class resolve()
\* gives the address, and the sub-scores of the other four extractors
ExtractorView(tx, ipnode) ==
    [sender |-> tx.sender, last |-> LastLocation(tx.last, ipnode),
     hours |-> tx.hours, asn_class |-> tx.asn_class, other |-> tx.other]

\* speed_kmh > IMPOSSIBLE_TRAVEL_KMH
ImpossibleTravel(v) ==
    /\ BothSet(v.sender, v.last)
    /\ v.hours > 0
    /\ Distance(v.last, v.sender) > IMPOSSIBLE_TRAVEL_KMH * v.hours

\* asn_risk of compute_asn_risk with no density, drift or entropy, in percent
AsnRisk(cls) ==
    Min((40 * ClassBase(cls)) \div 100 + (IF ForeignFlag(cls) THEN 20 ELSE 0), 100)

\* the behavioural sub-score, in hundredths: 20 for impossible travel plus
\* asn_risk_scaled = asn_risk * 20
BehavioralRisk(v) ==
    (IF ImpossibleTravel(v) THEN 2000 ELSE 0) + 20 * AsnRisk(v.asn_class)

\* fused, in 1/10000: the weighted behavioural sub-score on top of the
\* weighted sum of the other sub-scores
FusedOf(v) ==
    Min(v.other * 10000 + WEIGHT_BEHAVIORAL * BehavioralRisk(v), ScoreCap * 10000)

\* step 4 of score_transaction
RiskLevelOf(f) ==
    IF f >= HIGH_RISK_THRESHOLD * 10000 THEN "HIGH"
    ELSE IF f >= MEDIUM_RISK_THRESHOLD * 10000 THEN "MEDIUM" ELSE "LOW"

\* the flags of the behavioural extractor
FlagsOf(v) ==
    (IF ImpossibleTravel(v)
     THEN {<<"Impossible travel", Distance(v.last, v.sender)>>} ELSE {})
    \cup (IF AsnRisk(v.asn_class) >= 50 THEN {<<"ASN Risk", v.asn_class>>} ELSE {})
    \cup (IF ForeignFlag(v.asn_class) THEN {<<"Foreign IP", OrgName>>} ELSE {})

\* the conditions of _build_reason that hold, by position in Templates
FiredOf(v) ==
    (IF ImpossibleTravel(v) THEN {11} ELSE {})
    \cup (IF AsnRisk(v.asn_class) >= 50 THEN {14} ELSE {})
    \cup (IF ForeignFlag(v.asn_class) THEN {15} ELSE {})

\* time_min of _build_geo_evidence: random.uniform, the two ends
TimeMins(dist) ==
    IF dist > 500 THEN {3, 10} ELSE IF dist > 100 THEN {10, 30} ELSE {30}

\* _build_geo_evidence(dev, ip, city) with time_min = t
GeoEvidence(dev, ip, t) ==
    LET dist == IF BothSet(dev, ip) THEN Distance(dev, ip) ELSE 0
    IN [ipGeo |-> ip, distanceKm |-> dist,
        timeDeltaMin |-> IF dist # 0 THEN t ELSE 0,
        isImpossible |-> (dist * 60) \div t > 250]

\* score_transaction: risk_score (in hundredths), level, flags and reason
ScoreOf(v) ==
    [risk_score |-> (FusedOf(v) + 50) \div 100,
     risk_level |-> RiskLevelOf(FusedOf(v)),
     flags |-> FlagsOf(v),
     reason |-> BuildReason(FiredOf(v), FusedOf(v) \div 10000)]

\* the part of a run's outcome that is the RiskResponse
Response(res) ==
    [risk_score |-> res.risk_score, risk_level |-> res.risk_level,
     flags |-> res.flags, reason |-> res.reason]

\* step 1b of one run: synthesize the geo fields and write the IP node
TwinEnrich(r) ==
    /\ tpc[r] = "enrich"
    /\ \E geo \in SynthGeo(ttx) : tgeo' = [tgeo EXCEPT ![r] = geo]
    /\ tpc' = [tpc EXCEPT ![r] = "score"]
    /\ UNCHANGED <<env, ttx, tres, reasonVars, everDelivered, restarts, analyzerVars,
                   cacheVars, startupVars, fusionVars, streamVars, adapterVars,
                   workerVars, graphVars, wsVars, logVars>>

\* steps 2 and 3 of one run: score_transaction and the enriched alert
TwinScore(r) ==
    /\ tpc[r] = "score"
    /\ LET res == ScoreOf(ExtractorView(ttx, tgeo[r]))
           dist == IF BothSet(ttx.sender, tgeo[r])
                   THEN Distance(ttx.sender, tgeo[r]) ELSE 0
       IN \E t \in TimeMins(dist) :
            tres' = [tres EXCEPT ![r] =
                        [risk_score |-> res.risk_score, risk_level |-> res.risk_level,
                         flags |-> res.flags, reason |-> res.reason,
                         geoEvidence |-> GeoEvidence(ttx.sender, tgeo[r], t)]]
    /\ tpc' = [tpc EXCEPT ![r] = "done"]
    /\ UNCHANGED <<env, ttx, tgeo, reasonVars, everDelivered, restarts, analyzerVars,
                   cacheVars, startupVars, fusionVars, streamVars, adapterVars,
                   workerVars, graphVars, wsVars, logVars>>

TwinNext == \E r \in Runs : TwinEnrich(r) \/ TwinScore(r)

\* the transactions and graph states the two runs start from
TwinInputs ==
    [asn_class : AsnClasses, sender : {NoPoint, Mumbai},
     last : {NoPoint, Mumbai, London}, hours : {1, 48},
     other : {0, MEDIUM_RISK_THRESHOLD - 5, HIGH_RISK_THRESHOLD - 5}]

InitTwin ==
    /\ InitMemory(EnvAnalyzer)
    /\ rawLog = <<>> /\ rawDelivered = 0 /\ rawPEL = {}
    /\ fraudQueue = <<>> /\ fqDelivered = 0 /\ fqPEL = {}
    /\ groupExists = [c \in Components |-> TRUE]
    /\ spc = [c \in Components |-> "started"]
    /\ sreply = [c \in Components |-> "OK"]
    /\ fpc = "done" /\ sub = NoSub /\ s_behavioral = 0 /\ fused = 0
    /\ ReasonIdle
    /\ ttx \in TwinInputs
    /\ tpc = [r \in Runs |-> "enrich"]
    /\ tgeo = [r \in Runs |-> NoGeo]
    /\ tres = [r \in Runs |-> NoResult]
    /\ everDelivered = {} /\ restarts = 0

SpecTwin == InitTwin /\ [][TwinNext]_vars

\* C22: two runs over the same transaction and the same graph that differ in
\* the randomly synthesized IP geolocation return the same risk score, risk
\* level, flags and reason; only the alert's geoEvidence and the IP node's geo
\* fields may differ.
C22_ScoreIndependentOfIpGeo ==
    (tpc[1] = "done" /\ tpc[2] = "done") => Response(tres[1]) = Response(tres[2])

\* C22 witness: both runs are done, they synthesized different cities and
\* their geoEvidence disagrees, and the transaction scored MEDIUM with the
\* impossible-travel sentence
C22_Witness ==
    /\ tpc[1] = "done" /\ tpc[2] = "done"
    /\ tgeo[1].city # tgeo[2].city
    /\ tres[1].geoEvidence.distanceKm # tres[2].geoEvidence.distanceKm
    /\ tres[1].risk_level = "MEDIUM"
    /\ ImpossibleTravel(ExtractorView(ttx, tgeo[1]))

====
